---------------------------- MODULE Spec2Model ----------------------------
(***************************************************************************)
(* wl-starfield (src/src/main.rs): the simulation-and-compositing core.    *)
(*                                                                         *)
(* The program computes in f32.  An f32 value is modelled exactly, as the  *)
(* pair <<m, e>> standing for m * 2^e with 2^23 <= |m| < 2^24, or <<0, 0>> *)
(* for zero; every arithmetic operation rounds to nearest, ties to even,   *)
(* as IEEE 754 binary32 does.  Subnormals, infinities and NaN are outside  *)
(* the ranges the modelled runs reach and are not represented.             *)
(***************************************************************************)
EXTENDS Integers, Sequences, FiniteSets, TLC

(***************************************************************************)
(* f32 arithmetic                                                          *)
(***************************************************************************)
P7 == 2^7
P8 == 2^8
P12 == 2^12
P16 == 2^16
P22 == 2^22
P23 == 2^23
P24 == 2^24

Abs(n) == IF n < 0 THEN -n ELSE n

Sgn(n) == IF n < 0 THEN -1 ELSE 1

\* number of binary digits of a natural number below 2^8
BlenByte(a) ==
  IF a < 16
  THEN IF a < 4 THEN (IF a < 2 THEN a ELSE 2) ELSE (IF a < 8 THEN 3 ELSE 4)
  ELSE IF a < 64 THEN (IF a < 32 THEN 5 ELSE 6) ELSE (IF a < 128 THEN 7 ELSE 8)

\* number of binary digits of a natural number
Blen(a) ==
  IF a < P16
  THEN BlenByte(IF a < P8 THEN a ELSE a \div P8) + (IF a < P8 THEN 0 ELSE 8)
  ELSE BlenByte(IF a < P24 THEN a \div P16 ELSE a \div P24)
         + (IF a < P24 THEN 16 ELSE 24)

\* sign s, mantissa q (24 bits) rounded up or not, exponent e
Pack(s, q, up, e) ==
  IF up /\ q + 1 = P24 THEN <<s * P23, e + 1>>
  ELSE <<s * (IF up THEN q + 1 ELSE q), e>>

\* mantissa q (24 bits), discarded remainder r out of 2*half, sticky st:
\* round to nearest, ties to even
RoundPack(s, q, r, half, st, e) ==
  Pack(s, q, (r > half) \/ (r = half /\ (st \/ q % 2 = 1)), e)

\* Norm for a magnitude a of k binary digits and sign s
NormDigits(s, a, k, e, st) ==
  IF k <= 24
  THEN <<s * a * 2^(24 - k), e - (24 - k)>>
  ELSE RoundPack(s, a \div 2^(k - 24), a % 2^(k - 24), 2^(k - 25), st, e + k - 24)

\* the f32 nearest to n * 2^e (plus a nonzero amount below one unit of n when st)
Norm(n, e, st) ==
  IF n = 0 THEN <<0, 0>> ELSE NormDigits(Sgn(n), Abs(n), Blen(Abs(n)), e, st)

\* an integer (u8, u32, i32, usize) `as f32`
I2F(n) == Norm(n, 0, FALSE)

F32Neg(a) == <<-a[1], a[2]>>

\* hi + lo, lo's magnitude A..: hi's mantissa times 8 is A, lo's shifted to
\* hi's exponent is q with sticky st
AddShifted(hi, same, A, q, st) ==
  Norm(Sgn(hi[1]) * (IF same THEN A + q ELSE IF st THEN A - q - 1 ELSE A - q),
       hi[2] - 3, st)

\* hi + lo where hi has the larger magnitude
F32AddOrd(hi, lo) ==
  IF hi[2] - lo[2] >= 27 THEN hi
  ELSE AddShifted(hi, Sgn(hi[1]) = Sgn(lo[1]), Abs(hi[1]) * 8,
                  (Abs(lo[1]) * 8) \div 2^(hi[2] - lo[2]),
                  ((Abs(lo[1]) * 8) % 2^(hi[2] - lo[2])) # 0)

\* |a| >= |b| for nonzero a and b
MagGe(a, b) == a[2] > b[2] \/ (a[2] = b[2] /\ Abs(a[1]) >= Abs(b[1]))

\* a + b
F32Add(a, b) ==
  IF a[1] = 0 THEN b
  ELSE IF b[1] = 0 THEN a
  ELSE F32AddOrd(IF MagGe(a, b) THEN a ELSE b, IF MagGe(a, b) THEN b ELSE a)

\* a - b
F32Sub(a, b) == F32Add(a, F32Neg(b))

\* the 48-bit product as hi * 2^24 + lo, rounded
MulHiLo(s, hi, lo, e) ==
  IF hi >= P23
  THEN RoundPack(s, hi, lo, P23, FALSE, e + 24)
  ELSE RoundPack(s, 2 * hi + lo \div P23, lo % P23, P22, FALSE, e + 23)

\* the product from 12-bit halves: hh * 2^24 + cross * 2^12 + ll
MulParts(s, hh, cross, ll, e) ==
  MulHiLo(s, hh + cross \div P12 + ((cross % P12) * P12 + ll) \div P24,
          ((cross % P12) * P12 + ll) % P24, e)

\* x * y for mantissas x, y
MulMant(s, x, y, e) ==
  MulParts(s, (x \div P12) * (y \div P12),
           (x \div P12) * (y % P12) + (x % P12) * (y \div P12),
           (x % P12) * (y % P12), e)

\* a * b
F32Mul(a, b) ==
  IF a[1] = 0 \/ b[1] = 0 THEN <<0, 0>>
  ELSE MulMant(Sgn(a[1]) * Sgn(b[1]), Abs(a[1]), Abs(b[1]), a[2] + b[2])

\* seven more binary digits of the quotient qr[1] with remainder qr[2], divisor d
DivStep7(qr, d) == <<qr[1] * P7 + (qr[2] * P7) \div d, (qr[2] * P7) % d>>

\* one more binary digit
DivStep1(qr, d) == <<qr[1] * 2 + (qr[2] * 2) \div d, (qr[2] * 2) % d>>

\* x / y to 24 binary places, and the remainder
DivDigits(x, y) ==
  DivStep1(DivStep1(DivStep1(
    DivStep7(DivStep7(DivStep7(<<x \div y, x % y>>, y), y), y), y), y), y)

\* the quotient's top 24 digits, rounded on the 25th and the remainder
DivPack(s, qr, e) == RoundPack(s, qr[1] \div 2, qr[1] % 2, 1, qr[2] # 0, e)

\* x / y for mantissas x, y
DivMant(s, x, y, e) ==
  IF x >= y THEN DivPack(s, DivDigits(x, y), e - 23)
  ELSE DivPack(s, DivStep1(DivDigits(x, y), y), e - 24)

\* a / b (b nonzero)
F32Div(a, b) ==
  IF a[1] = 0 THEN <<0, 0>>
  ELSE DivMant(Sgn(a[1]) * Sgn(b[1]), Abs(a[1]), Abs(b[1]), a[2] - b[2])

RECURSIVE SqrtStep(_, _, _, _)
RECURSIVE SqrtDigit(_, _, _, _)
\* digit-by-digit square root: n's remaining k pairs of bits, then zeros
SqrtStep(root, rem, n, k) ==
  IF k = -13 THEN <<root, rem>>
  ELSE SqrtDigit(root, rem * 4 + (IF k > 0 THEN (n \div 4^(k - 1)) % 4 ELSE 0), n, k)

\* the next digit of the root: r4 is the remainder with the next pair of bits
SqrtDigit(root, r4, n, k) ==
  IF r4 >= root * 4 + 1
  THEN SqrtStep(root * 2 + 1, r4 - (root * 4 + 1), n, k - 1)
  ELSE SqrtStep(root * 2, r4, n, k - 1)

\* the root rr[1] with remainder rr[2] of a mantissa scaled by 2^26
SqrtPack(rr, e) == Norm(rr[1], (e \div 2) - 13, rr[2] # 0)

\* a.sqrt() (a >= 0)
F32Sqrt(a) ==
  IF a[1] = 0 THEN <<0, 0>>
  ELSE SqrtPack(SqrtStep(0, 0, IF a[2] % 2 = 1 THEN 2 * a[1] ELSE a[1], 13),
                IF a[2] % 2 = 1 THEN a[2] - 1 ELSE a[2])

\* a < b
F32Lt(a, b) ==
  IF a[1] = 0 THEN b[1] > 0
  ELSE IF b[1] = 0 THEN a[1] < 0
  ELSE IF Sgn(a[1]) # Sgn(b[1]) THEN a[1] < 0
  ELSE IF a[1] > 0
       THEN a[2] < b[2] \/ (a[2] = b[2] /\ a[1] < b[1])
       ELSE a[2] > b[2] \/ (a[2] = b[2] /\ a[1] < b[1])

F32Gt(a, b) == F32Lt(b, a)

F32Le(a, b) == ~F32Lt(b, a)

F32Ge(a, b) == ~F32Lt(a, b)

\* a.min(b)
F32Min(a, b) == IF F32Lt(b, a) THEN b ELSE a

\* a.clamp(lo, hi)
F32Clamp(a, lo, hi) == IF F32Lt(a, lo) THEN lo ELSE IF F32Gt(a, hi) THEN hi ELSE a

I32_MAX == 2^31 - 1

\* a as i32: toward zero, saturating
F2I(a) ==
  IF a[1] = 0 THEN 0
  ELSE IF a[2] >= 8 THEN Sgn(a[1]) * I32_MAX
  ELSE IF a[2] >= 0 THEN a[1] * 2^a[2]
  ELSE IF a[2] <= -24 THEN 0
  ELSE Sgn(a[1]) * (Abs(a[1]) \div 2^(-a[2]))

\* an i32 as u8, saturating
SatU8(i) == IF i < 0 THEN 0 ELSE IF i > 255 THEN 255 ELSE i

\* a as u8: toward zero, saturating
F2U8(a) == SatU8(F2I(a))

\* the f32 values of the program's literals: 1.0 is 8388608 * 2^-23, ...
F0 == <<0, 0>>
F1 == <<8388608, -23>>
F2 == <<8388608, -22>>
F3 == <<12582912, -22>>
F4 == <<8388608, -21>>
F10 == <<10485760, -20>>
F50 == <<13107200, -18>>
F60 == <<15728640, -18>>
F100 == <<13107200, -17>>
F155 == <<10158080, -16>>
F200 == <<13107200, -16>>
F255 == <<16711680, -16>>
F400 == <<13107200, -15>>
\* 0.5, 0.01, 0.2, 0.4, 0.6, 0.8, 3.14
HALF == <<8388608, -24>>
F0_01 == <<10737418, -30>>
F0_2 == <<13421773, -26>>
F0_4 == <<13421773, -25>>
F0_6 == <<10066330, -24>>
F0_8 == <<13421773, -24>>
F3_14 == <<13170115, -22>>
\* NANOS_PER_SEC as f32
F1E9 == <<15625000, 6>>

(***************************************************************************)
(* Program constants (main.rs lines 11-18, 199, 208)                       *)
(***************************************************************************)
WIDTH == 1920
HEIGHT == 1080
\* 5000 in the source; the model runs the same loop over a shorter vector
STAR_COUNT == 2
\* 30.0
SHOOTING_STAR_GRAVITY == <<15728640, -19>>
STAR_MIN_SIZE == 1
STAR_MAX_SIZE == 4
\* 5.0 and 25.0
STAR_MIN_SPEED == <<10485760, -21>>
STAR_MAX_SPEED == <<13107200, -19>>
\* max_life, 3.0
MAX_LIFE == <<12582912, -22>>
TRAIL_MAX_LEN == 80
\* the margin of ShootingStar::is_alive, 200.0
MARGIN == <<13107200, -16>>
\* std::f32::consts::TAU
TAU == <<13176795, -21>>
PALETTE == << <<180, 200, 255>>, <<255, 255, 255>>, <<255, 255, 200>>,
              <<255, 220, 180>>, <<255, 180, 180>> >>

(***************************************************************************)
(* The state                                                               *)
(***************************************************************************)
VARIABLES
  screen_details,  \* ScreenDetails {width, height}
  stars,           \* Vec<Star>
  shooting_stars,  \* Vec<ShootingStar>
  frame,           \* the RGBA byte buffer pixels.frame_mut()
  now,             \* Instant::now() of the running frame, in ms since start
  last_frame,      \* last_frame, in ms since start
  dt,              \* dt of the running frame (f32)
  elapsed,         \* elapsed of the running frame (f32)
  pc,              \* the handler's position
  status,          \* "running", "panicked" or "exited"
  log,             \* the calls made in the running frame, in order
  writes,          \* the pixel writes of the running frame: <<col, row, idx>>
  calls,           \* how many frames began (how many calls, in a unit run)
  hist             \* the shooting stars the running pass started with (in a
                   \* unit run: what the calls so far were given)

vars == <<screen_details, stars, shooting_stars, frame, now, last_frame, dt,
          elapsed, pc, status, log, writes, calls, hist>>

(***************************************************************************)
(* The frame buffer: len bytes.  The four bytes of the pixel at byte index *)
(* b (a multiple of 4) are px[b] where written since the last fill, and    *)
(* base, four times, elsewhere.                                            *)
(***************************************************************************)
NewFrame(len, base) == [len |-> len, base |-> base, px |-> <<>>]

\* frame[i], i < len
Get(f, i) ==
  IF (i - (i % 4)) \in DOMAIN f.px THEN f.px[i - (i % 4)][(i % 4) + 1] ELSE f.base

\* frame.fill(v)
Fill(f, v) == [f EXCEPT !.base = v, !.px = <<>>]

\* a drawing in progress: the buffer, whether every index so far was in
\* bounds (an out-of-bounds index panics), and the pixels written so far
Canvas(f) == [frame |-> f, ok |-> TRUE, w |-> {}]

\* the cells of ts (each <<col, row, idx, ...>>) a drawing loop gets through:
\* all of them, or those up to the first whose index is outside the buffer,
\* where the loop panics
Reached(f, ts) ==
  LET bad == {k \in 1..Len(ts) : ts[k][3] + 3 >= f.len}
  IN  IF bad = {} THEN Len(ts)
      ELSE CHOOSE k \in bad : \A j \in bad : k <= j

InBuffer(f, ts) == \A k \in 1..Len(ts) : ts[k][3] + 3 < f.len

\* the pixels a loop over the first m cells of ts stores: the four bytes
\* by[k] at cell ts[k]
PxOf(ts, m, by) ==
  [b \in {ts[k][3] : k \in 1..m} |-> by[CHOOSE k \in 1..m : ts[k][3] = b]]

\* the canvas after a loop over ts that got through n cells, all stored (ok)
\* or the last one out of bounds
StoreReached(c, ts, n, ok, by) ==
  [frame |-> [c.frame EXCEPT !.px =
                PxOf(ts, IF ok THEN n ELSE n - 1, by)
                @@ c.frame.px],
   ok |-> ok,
   w |-> c.w \cup {<<ts[k][1], ts[k][2], ts[k][3]>> : k \in 1..n}]

\* the canvas after a drawing loop over the cells ts (no two the same pixel)
StoreCells(c, ts, by) ==
  IF ~c.ok THEN c
  ELSE StoreReached(c, ts, Reached(c.frame, ts), InBuffer(c.frame, ts), by)

(***************************************************************************)
(* Time: Duration::as_secs_f32 of a whole number of milliseconds           *)
(***************************************************************************)
AsSecsF32(ms) ==
  F32Add(I2F(ms \div 1000), F32Div(I2F((ms % 1000) * 1000000), F1E9))

(***************************************************************************)
(* libm: 0.999_f32.powf(arg), for the arguments dt * 60.0 of the frame     *)
(* times the model draws (a transcendental function, tabulated).           *)
(***************************************************************************)
Powf999(arg) ==
  CASE arg = <<0, 0>>          -> <<8388608, -23>>
    [] arg = <<16106128, -28>> -> <<16776209, -24>>
    [] arg = <<16106128, -24>> -> <<16761110, -24>>
    [] arg = <<12582912, -21>> -> <<16676805, -24>>
    [] arg = <<15728640, -21>> -> <<16651797, -24>>
    [] arg = <<15728640, -20>> -> <<16527315, -24>>
    [] arg = <<15728640, -19>> -> <<16281136, -24>>
    [] arg = <<15728640, -18>> -> <<15799725, -24>>
    [] arg = <<15728640, -17>> -> <<14879185, -24>>
    [] arg = <<11796480, -16>> -> <<14012279, -24>>
    [] arg = <<15728640, -16>> -> <<13195882, -24>>

\* libm: x.powf(2.0)
Powf2(x) == F32Mul(x, x)

(***************************************************************************)
(* Star (main.rs lines 32-130)                                             *)
(***************************************************************************)
\* variant: a recycle that puts the star one pixel past the right edge
RecycleXPastEdge(sd) == I2F(sd.width + 1)

\* the value Star::update sets x to on a recycle
RecycleX(sd) == I2F(sd.width)

\* Star::update, line 52: the speed after the decay
StarDecay(s, d) == F32Mul(s.speed, Powf999(F32Mul(d, F60)))

\* Star::update, lines 52-53: the star with the new speed and the new x
StarMoved(s, d, speed1) ==
  [s EXCEPT !.speed = speed1,
            !.x = F32Sub(s.x, F32Mul(F32Mul(speed1, s.depth), d))]

\* whether Star::update with step d recycles s (line 55)
StarRecycles(s, d) == F32Lt(StarMoved(s, d, StarDecay(s, d)).x, F0)

\* variant: a recycle that draws a new colour too
StarRecycledRecoloured(m, sd, r) ==
  [m EXCEPT !.x = RecycleX(sd), !.y = r.y, !.depth = r.depth,
            !.twinkle_phase = r.twinkle_phase,
            !.twinkle_speed = r.twinkle_speed,
            !.speed = r.speed, !.size = r.size, !.color = PALETTE[2]]

\* Star::update, lines 56-62: r holds the values the rng returns
StarRecycled(m, sd, r) ==
  [m EXCEPT !.x = RecycleX(sd), !.y = r.y, !.depth = r.depth,
            !.twinkle_phase = r.twinkle_phase,
            !.twinkle_speed = r.twinkle_speed,
            !.speed = r.speed, !.size = r.size]

\* variant: a recycle that wraps around, keeping the overshoot below 0
StarWrappedKeepingOvershoot(m, sd, r) ==
  IF F32Lt(m.x, F0)
  THEN [StarRecycled(m, sd, r) EXCEPT !.x = F32Add(I2F(sd.width), m.x)]
  ELSE m

\* Star::update, lines 55-63, on the moved star m
StarWrapped(m, sd, r) == IF F32Lt(m.x, F0) THEN StarRecycled(m, sd, r) ELSE m

\* Star::update; r holds the values the rng returns if the star is recycled
StarUpdate(s, d, sd, r) == StarWrapped(StarMoved(s, d, StarDecay(s, d)), sd, r)

\* variant: a star is alive only left of the right edge
StarIsAliveLeftOfEdge(s, sd) == F32Lt(s.x, I2F(sd.width))

\* Star::is_alive
StarIsAlive(s, sd) == TRUE

\* variant: the phase is replaced by elapsed * twinkle_speed
StarUpdateTwinkleReplacing(s, el) ==
  IF s.can_twinkle
  THEN [s EXCEPT !.twinkle_phase = F32Mul(el, s.twinkle_speed)]
  ELSE s

\* Star::update_twinkle
StarUpdateTwinkle(s, el) ==
  IF s.can_twinkle
  THEN [s EXCEPT !.twinkle_phase = F32Add(F32Mul(el, s.twinkle_speed), s.twinkle_phase)]
  ELSE s

\* Star::draw, lines 69-70: sn is libm's sin(twinkle_phase)
StarIntensity(s, sn) ==
  F2U8(F32Min(F32Div(F32Mul(F32Add(F32Mul(sn, HALF), HALF), F255), s.depth), F200))

\* Star::draw, lines 73-75: one channel
StarChannel(base, intensity) ==
  F2U8(F32Min(F32Mul(I2F(base), F32Div(I2F(intensity), F255)), F255))

\* the alpha byte Star::draw stores
OpaqueByte == 255

\* Star::draw, the four bytes stored at each cell
StarBytes(color, intensity) ==
  <<StarChannel(color[1], intensity), StarChannel(color[2], intensity),
    StarChannel(color[3], intensity), OpaqueByte>>

\* Star::draw, the r, g, b it stores
StarColor(s, sn) == SubSeq(StarBytes(s.color, StarIntensity(s, sn)), 1, 3)

\* Star::draw, the loop: cell n of size * size, dx outer and dy inner
StarCells(cx, cy, size, width) ==
  [n \in 1..(size * size) |->
     <<cx + ((n - 1) \div size), cy + ((n - 1) % size),
       ((cy + ((n - 1) % size)) * width + cx + ((n - 1) \div size)) * 4>>]

\* Star::draw, the loop: the cells that pass the bounds check, as <<ix, iy, idx>>
StarTargets(s, sd) ==
  SelectSeq(StarCells(F2I(s.x), F2I(s.y), s.size, sd.width),
            LAMBDA t : t[1] >= 0 /\ t[1] < sd.width /\ t[2] >= 0 /\ t[2] < sd.height)

\* the canvas after storing the same four bytes at every cell of ts
StoreSame(c, ts, bytes) == StoreCells(c, ts, [k \in 1..Len(ts) |-> bytes])

\* Star::draw
StarDraw(s, c, sd, sn) ==
  StoreSame(c, StarTargets(s, sd), StarBytes(s.color, StarIntensity(s, sn)))

(***************************************************************************)
(* ShootingStar (main.rs lines 132-260)                                    *)
(***************************************************************************)
\* ShootingStar::new
ShootingStarNew(start_x, start_y, vx, vy) ==
  [x |-> start_x, y |-> start_y, vx |-> vx, vy |-> vy, life |-> F0,
   max_life |-> MAX_LIFE, trail |-> <<>>, trail_max_len |-> TRAIL_MAX_LEN]

\* variant: an eviction that drops the newest sample
TrailEvictNewest(t, max_len) == IF Len(t) > max_len THEN SubSeq(t, 1, max_len) ELSE t

\* the trail after the eviction of ShootingStar::update (lines 147-149)
TrailEvict(t, max_len) == IF Len(t) > max_len THEN Tail(t) ELSE t

\* the trail after the push and the eviction (lines 146-149)
TrailPush(trail, pos, max_len) == TrailEvict(Append(trail, pos), max_len)

\* variant: an update that does not age the star
ShootingStarMovedAgeless(s, d, vy1) ==
  [s EXCEPT !.trail = TrailPush(s.trail, <<s.x, s.y>>, s.trail_max_len),
            !.x = F32Add(s.x, F32Mul(s.vx, d)),
            !.vy = vy1,
            !.y = F32Add(s.y, F32Mul(vy1, d))]

\* variant: y is advanced with the vy of before the update
ShootingStarMovedOldVy(s, d, vy1) ==
  [s EXCEPT !.trail = TrailPush(s.trail, <<s.x, s.y>>, s.trail_max_len),
            !.x = F32Add(s.x, F32Mul(s.vx, d)),
            !.vy = vy1,
            !.y = F32Add(s.y, F32Mul(s.vy, d)),
            !.life = F32Add(s.life, d)]

\* ShootingStar::update, lines 146-155, given the new vy
ShootingStarMoved(s, d, vy1) ==
  [s EXCEPT !.trail = TrailPush(s.trail, <<s.x, s.y>>, s.trail_max_len),
            !.x = F32Add(s.x, F32Mul(s.vx, d)),
            !.vy = vy1,
            !.y = F32Add(s.y, F32Mul(vy1, d)),
            !.life = F32Add(s.life, d)]

\* ShootingStar::update
ShootingStarUpdate(s, d) ==
  ShootingStarMoved(s, d, F32Add(s.vy, F32Mul(SHOOTING_STAR_GRAVITY, d)))

\* variant: a star whose life equals max_life is still alive
IsAliveLifeInclusive(s, sd) ==
  /\ F32Le(s.life, s.max_life)
  /\ F32Gt(s.x, F32Neg(MARGIN))
  /\ F32Lt(s.x, F32Add(I2F(sd.width), MARGIN))
  /\ F32Gt(s.y, F32Neg(MARGIN))
  /\ F32Lt(s.y, F32Add(I2F(sd.height), MARGIN))

\* variant: only the position decides
IsAliveIgnoringLife(s, sd) ==
  /\ F32Gt(s.x, F32Neg(MARGIN))
  /\ F32Lt(s.x, F32Add(I2F(sd.width), MARGIN))
  /\ F32Gt(s.y, F32Neg(MARGIN))
  /\ F32Lt(s.y, F32Add(I2F(sd.height), MARGIN))

\* ShootingStar::is_alive
ShootingStarIsAlive(s, sd) ==
  /\ F32Lt(s.life, s.max_life)
  /\ F32Gt(s.x, F32Neg(MARGIN))
  /\ F32Lt(s.x, F32Add(I2F(sd.width), MARGIN))
  /\ F32Gt(s.y, F32Neg(MARGIN))
  /\ F32Lt(s.y, F32Add(I2F(sd.height), MARGIN))

\* ShootingStar::draw_point, the loop: cell k of n * n around (cx, cy), dx outer
\* and dy inner from -h, as <<px, py, idx, dx, dy>>
PointCells(cx, cy, h, n) ==
  [k \in 1..(n * n) |->
     <<cx + ((k - 1) \div n) - h, cy + ((k - 1) % n) - h,
       ((cy + ((k - 1) % n) - h) * WIDTH + cx + ((k - 1) \div n) - h) * 4,
       ((k - 1) \div n) - h, ((k - 1) % n) - h>>]

\* ShootingStar::draw_point, the loop: the cells that pass the bounds check
DrawPointTargets(x, y, size) ==
  SelectSeq(PointCells(F2I(x), F2I(y), size \div 2, 2 * (size \div 2) + 1),
            LAMBDA t : t[1] >= 0 /\ t[1] < WIDTH /\ t[2] >= 0 /\ t[2] < HEIGHT)

\* the blend of one channel (lines 236-253): old and new bytes, coverage fa
BlendChannel(old, new, fa) ==
  F2U8(F32Mul(F32Add(F32Mul(F32Div(I2F(old), F255), F32Sub(F1, fa)),
                     F32Mul(F32Div(I2F(new), F255), fa)), F255))

\* the coverage of the cell (ddx, ddy) of a point of the given alpha and size
\* (lines 230-233)
FinalAlpha(ddx, ddy, alpha, size) ==
  F32Clamp(F32Mul(alpha,
                  Powf2(F32Sub(F1, F32Clamp(F32Div(F32Sqrt(I2F(ddx * ddx + ddy * ddy)),
                                                   F32Div(I2F(size), F2)),
                                            F0, F1)))),
           F0, F1)

\* the alpha byte ShootingStar::draw_point stores at a blended pixel
BlendedAlphaByte == 255

\* the four bytes stored at a pixel holding old, blended with rgb at coverage fa
BlendBytes(old, rgb, fa) ==
  <<BlendChannel(old[1], rgb[1], fa), BlendChannel(old[2], rgb[2], fa),
    BlendChannel(old[3], rgb[3], fa), BlendedAlphaByte>>

\* one cell of ShootingStar::draw_point: the four bytes stored at cell t
BlendPixel(f, t, rgb, alpha, size) ==
  BlendBytes(<<Get(f, t[3]), Get(f, t[3] + 1), Get(f, t[3] + 2)>>, rgb,
             FinalAlpha(t[4], t[5], alpha, size))

\* ShootingStar::draw_point over its in-range cells ts; p is [x, y, rgb, alpha, size]
DrawPointOn(c, p, ts) ==
  StoreCells(c, ts,
             [k \in 1..Len(ts) |-> BlendPixel(c.frame, ts[k], p.rgb, p.alpha, p.size)])

\* ShootingStar::draw_point
DrawPoint(c, p) == DrawPointOn(c, p, DrawPointTargets(p.x, p.y, p.size))

\* ShootingStar::draw, the global fade (line 159)
FadeAlpha(s) == F32Clamp(F32Sub(F1, F32Div(s.life, s.max_life)), F0, F1)

\* ShootingStar::draw, the draw_point call of a trail sample at pos, given
\* trail_progress and the fade (lines 164-177)
TrailPointAt(pos, progress, fade) ==
  [x |-> pos[1], y |-> pos[2],
   rgb |-> <<F2U8(F32Mul(F255, F32Add(F0_8, F32Mul(F0_2, progress)))),
             F2U8(F32Mul(F255, F32Add(F0_6, F32Mul(F0_4, progress)))),
             F2U8(F32Add(F100, F32Mul(F155, F32Sub(F1, progress))))>>,
   alpha |-> F32Mul(F32Mul(fade, progress), progress),
   size |-> F2I(F32Add(F1, F32Mul(F3, progress)))]

\* the draw_point call of trail sample i (from 1)
TrailPoint(s, i) ==
  TrailPointAt(s.trail[i], F32Div(I2F(i - 1), I2F(Len(s.trail))), FadeAlpha(s))

\* the draw_point call of the head (lines 181-184)
HeadPoint(s) ==
  [x |-> s.x, y |-> s.y, rgb |-> <<255, 255, 220>>, alpha |-> FadeAlpha(s),
   size |-> 6]

\* the trail's draw_point calls: the samples not skipped (line 166)
TrailCalls(s) ==
  SelectSeq([i \in 1..Len(s.trail) |-> TrailPoint(s, i)],
            LAMBDA p : ~F32Lt(p.alpha, F0_01))

\* ShootingStar::draw, the draw_point calls it makes, in order
ShootingStarDrawCalls(s) ==
  IF F32Gt(FadeAlpha(s), F0_01) THEN Append(TrailCalls(s), HeadPoint(s))
  ELSE TrailCalls(s)

RECURSIVE DrawPoints(_, _, _)
DrawPoints(c, ps, i) ==
  IF i > Len(ps) THEN c ELSE DrawPoints(DrawPoint(c, ps[i]), ps, i + 1)

\* ShootingStar::draw
ShootingStarDraw(s, c) == DrawPoints(c, ShootingStarDrawCalls(s), 1)

(***************************************************************************)
(* update_and_draw_objects (main.rs lines 263-276): Vec::retain_mut with   *)
(* the closure update, draw, is_alive.  The result holds the objects kept, *)
(* the canvas and the calls made, each with the object's index in the      *)
(* collection before the pass.                                             *)
(***************************************************************************)
RECURSIVE RetainFrom(_, _, _, _, _, _, _)
RECURSIVE RetainDrawn(_, _, _, _, _, _, _, _)
RECURSIVE RetainKept(_, _, _, _, _, _, _, _, _)
\* variant: is_alive is asked of the object as it was before its update
RetainKeptStale(objs, i, d, sd, kept, u, c1, lg, a) ==
  IF ~c1.ok
  THEN RetainFrom(objs, i + 1, d, sd, kept, c1,
                  lg \o << <<"update", i>>, <<"draw", i>> >>)
  ELSE RetainFrom(objs, i + 1, d, sd,
                  IF ShootingStarIsAlive(objs[i], sd) THEN Append(kept, u) ELSE kept,
                  c1,
                  lg \o << <<"update", i>>, <<"draw", i>>,
                           <<"is_alive", i, ShootingStarIsAlive(objs[i], sd)>> >>)

\* the closure's is_alive on the updated and drawn object u, and what follows
RetainKept(objs, i, d, sd, kept, u, c1, lg, a) ==
  IF ~c1.ok
  THEN RetainFrom(objs, i + 1, d, sd, kept, c1,
                  lg \o << <<"update", i>>, <<"draw", i>> >>)
  ELSE RetainFrom(objs, i + 1, d, sd, IF a THEN Append(kept, u) ELSE kept, c1,
                  lg \o << <<"update", i>>, <<"draw", i>>, <<"is_alive", i, a>> >>)

\* the closure's draw on the updated object u
RetainDrawn(objs, i, d, sd, kept, u, c, lg) ==
  RetainKept(objs, i, d, sd, kept, u, ShootingStarDraw(u, c), lg,
             ShootingStarIsAlive(u, sd))

\* the pass from object i on
RetainFrom(objs, i, d, sd, kept, c, lg) ==
  IF i > Len(objs) \/ ~c.ok THEN [objs |-> kept, canvas |-> c, log |-> lg]
  ELSE RetainDrawn(objs, i, d, sd, kept, ShootingStarUpdate(objs[i], d), c, lg)

UpdateAndDrawObjects(objs, d, c, sd) == RetainFrom(objs, 1, d, sd, <<>>, c, <<>>)

(***************************************************************************)
(* The random source.  rng.gen_range(lo..hi) returns a value of [lo, hi)   *)
(* and panics on an empty range; the model draws the low end and the       *)
(* middle of each range.  rng.gen_bool(p) panics unless 0 <= p <= 1.       *)
(***************************************************************************)
Mid(lo, hi) == F32Mul(F32Add(lo, hi), HALF)

\* rng.gen_range(lo..hi) panics: the range is empty
GenRangePanics(lo, hi) == ~F32Lt(lo, hi)

\* the largest f32 dt with dt as f64 * 0.3 <= 1.0 (3.3333333)
DT_SPAWN_MAX == <<13981013, -22>>

\* rng.gen_bool(dt as f64 * 0.3) panics: the probability is above 1
GenBoolPanics(d) == F32Gt(d, DT_SPAWN_MAX)

\* what rng.gen_bool(dt as f64 * 0.3) can return
GenBool(d) == IF d = F0 THEN {FALSE} ELSE BOOLEAN

\* libm's sin(twinkle_phase), a value of [-1, 1]: the model draws the ends
SinVals == {F32Neg(F1), F1}

\* Star::new: the stars the model lets the rng produce, one at the low end of
\* every range and one in the bottom right corner
StarNewDraws(sd) ==
  { [x |-> F0, y |-> F0, speed |-> STAR_MIN_SPEED, twinkle_phase |-> F0,
     twinkle_speed |-> HALF, can_twinkle |-> FALSE, depth |-> HALF,
     color |-> PALETTE[1], size |-> STAR_MIN_SIZE],
    [x |-> F32Sub(I2F(sd.width), F1), y |-> F32Sub(I2F(sd.height), F1),
     speed |-> Mid(STAR_MIN_SPEED, STAR_MAX_SPEED),
     twinkle_phase |-> Mid(F0, TAU), twinkle_speed |-> Mid(HALF, F3_14),
     can_twinkle |-> TRUE, depth |-> Mid(HALF, F4),
     color |-> PALETTE[5], size |-> STAR_MAX_SIZE] }

\* Star::update, the recycle: the values the model lets the rng return
RecycleDraws(sd) ==
  { [y |-> F0, depth |-> HALF, twinkle_phase |-> F0, twinkle_speed |-> HALF,
     speed |-> STAR_MIN_SPEED, size |-> STAR_MIN_SIZE],
    [y |-> Mid(F0, I2F(sd.height)), depth |-> Mid(HALF, F2),
     twinkle_phase |-> Mid(F0, TAU), twinkle_speed |-> Mid(HALF, F3_14),
     speed |-> Mid(STAR_MIN_SPEED, STAR_MAX_SPEED), size |-> STAR_MAX_SIZE] }

\* the spawn, line 332: the upper end of start_y's range
SpawnYHigh(sd) == F32Mul(I2F(sd.height), F0_4)

\* the spawn, lines 332-334: the low end or the middle of the three ranges
SpawnDraws(sd) ==
  { [start_y |-> F50, vx |-> F32Neg(F200), vy |-> F10],
    [start_y |-> Mid(F50, SpawnYHigh(sd)),
     vx |-> F32Neg(Mid(F200, F400)), vy |-> Mid(F10, F50)] }

\* the spawn, lines 331 and 336
Spawned(sd, r) ==
  ShootingStarNew(F32Add(I2F(sd.width), F50), r.start_y, r.vx, r.vy)

(***************************************************************************)
(* main (main.rs lines 278-373)                                            *)
(***************************************************************************)
\* the monitor sizes the model starts on
Screens == { [width |-> WIDTH, height |-> HEIGHT], [width |-> 640, height |-> 360],
             [width |-> 320, height |-> 100] }

\* the times between two frames, in ms
FrameMs == {0, 1000, 2000, 4000}

\* the number of frames of a run
MaxFrames == 2

\* the handler never ran: what the variables of a frame hold before the first
NoFrame ==
  /\ now = 0 /\ last_frame = 0 /\ dt = F0 /\ elapsed = F0
  /\ pc = "idle" /\ status = "running" /\ log = <<>> /\ writes = {}

\* main, lines 278-306
Init ==
  /\ screen_details \in Screens
  /\ stars \in [1..STAR_COUNT -> StarNewDraws(screen_details)]
  /\ shooting_stars = <<>>
  /\ frame = NewFrame(screen_details.width * screen_details.height * 4, 0)
  /\ NoFrame
  /\ calls = 0 /\ hist = <<>>

\* RedrawRequested, lines 313-319: the clock and the clear
BeginFrame ==
  /\ pc = "idle" /\ status = "running" /\ calls < MaxFrames
  /\ \E ms \in FrameMs :
       /\ now' = now + ms
       /\ dt' = AsSecsF32(now + ms - last_frame)
       /\ last_frame' = now + ms
       /\ elapsed' = AsSecsF32(now + ms)
  /\ frame' = Fill(frame, 0)
  /\ log' = << <<"clear">> >>
  /\ writes' = {}
  /\ pc' = "stars"
  /\ calls' = calls + 1
  /\ hist' = <<>>
  /\ UNCHANGED <<screen_details, stars, shooting_stars, status>>

\* variant: a loop that calls update_twinkle before the main update
StarCallsTwinkleFirst(i, recycled) ==
  IF recycled
  THEN << <<"star_twinkle", i>>, <<"star_update", i>>, <<"star_recycle", i>>,
          <<"star_draw", i>> >>
  ELSE << <<"star_twinkle", i>>, <<"star_update", i>>, <<"star_draw", i>> >>

\* the calls the loop makes on star i, recycled or not
StarCalls(i, recycled) ==
  IF recycled
  THEN << <<"star_update", i>>, <<"star_recycle", i>>, <<"star_twinkle", i>>,
          <<"star_draw", i>> >>
  ELSE << <<"star_update", i>>, <<"star_twinkle", i>>, <<"star_draw", i>> >>

RECURSIVE StarsFrom(_, _, _, _, _, _, _, _, _)
RECURSIVE StarsNext(_, _, _, _, _, _, _, _, _, _)
\* lines 323-325 done on star i, now t: its draw, then the stars after it
StarsNext(ss, i, d, el, sd, c, lg, rs, sns, t) ==
  StarsFrom([ss EXCEPT ![i] = t], i + 1, d, el, sd, StarDraw(t, c, sd, sns[i]),
            lg \o StarCalls(i, StarRecycles(ss[i], d)), rs, sns)

\* lines 322-326, from star i on; rs and sns are what the rng and sin return
StarsFrom(ss, i, d, el, sd, c, lg, rs, sns) ==
  IF i > Len(ss) THEN [stars |-> ss, canvas |-> c, log |-> lg]
  ELSE StarsNext(ss, i, d, el, sd, c, lg, rs, sns,
                 StarUpdateTwinkle(StarUpdate(ss[i], d, sd, rs[i]), el))

\* what the rng returns to each star's update: a star that is not recycled
\* does not consult it
RecycleChoices(ss, d, sd) ==
  {rs \in [1..Len(ss) -> RecycleDraws(sd) \cup {<<>>}] :
     \A i \in 1..Len(ss) : StarRecycles(ss[i], d) <=> rs[i] # <<>>}

\* the state after the star loop returned r
StarsDone(r) ==
  /\ stars' = r.stars
  /\ frame' = r.canvas.frame
  /\ writes' = writes \cup r.canvas.w
  /\ log' = log \o r.log

\* lines 322-326: every star's update, update_twinkle and draw
UpdateStars ==
  /\ pc = "stars" /\ status = "running"
  /\ \E rs \in RecycleChoices(stars, dt, screen_details),
        sns \in [1..Len(stars) -> SinVals] :
       StarsDone(StarsFrom(stars, 1, dt, elapsed, screen_details, Canvas(frame),
                           <<>>, rs, sns))
  /\ pc' = "spawn"
  /\ UNCHANGED <<screen_details, shooting_stars, now, last_frame, dt, elapsed,
                 status, calls, hist>>

\* lines 329-337: the spawn decision and the spawn
Spawn ==
  /\ pc = "spawn" /\ status = "running"
  /\ IF GenBoolPanics(dt)
     THEN /\ status' = "panicked"
          /\ UNCHANGED <<shooting_stars, pc, log>>
     ELSE \E b \in GenBool(dt) :
            IF ~b
            THEN /\ log' = Append(log, <<"spawn_decision", 0>>)
                 /\ pc' = "shooting"
                 /\ UNCHANGED <<shooting_stars, status>>
            ELSE IF GenRangePanics(F50, SpawnYHigh(screen_details))
            THEN /\ status' = "panicked"
                 /\ UNCHANGED <<shooting_stars, pc, log>>
            ELSE \E r \in SpawnDraws(screen_details) :
                   /\ shooting_stars' = Append(shooting_stars, Spawned(screen_details, r))
                   /\ log' = Append(log, <<"spawn_decision", 1>>)
                   /\ pc' = "shooting"
                   /\ UNCHANGED status
  /\ UNCHANGED <<screen_details, stars, frame, now, last_frame, dt, elapsed,
                 writes, calls, hist>>

\* the state after the pass returned r: a panic in a draw ends the program;
\* hist keeps the collection the pass started with
PassDone(r) ==
  /\ hist' = shooting_stars
  /\ frame' = r.canvas.frame
  /\ writes' = writes \cup r.canvas.w
  /\ log' = log \o r.log
  /\ shooting_stars' = IF r.canvas.ok THEN r.objs ELSE shooting_stars
  /\ pc' = IF r.canvas.ok THEN "present" ELSE pc
  /\ status' = IF r.canvas.ok THEN status ELSE "panicked"

\* lines 340-347: the update/draw/retain pass over the shooting stars
UpdateShootingStars ==
  /\ pc = "shooting" /\ status = "running"
  /\ PassDone(UpdateAndDrawObjects(shooting_stars, dt, Canvas(frame), screen_details))
  /\ UNCHANGED <<screen_details, stars, now, last_frame, dt, elapsed, calls>>

\* lines 349-351: pixels.render(), whose failure ends the event loop
Present ==
  /\ pc = "present" /\ status = "running"
  /\ \E rendered \in BOOLEAN :
       status' = IF rendered THEN "running" ELSE "exited"
  /\ log' = Append(log, <<"present">>)
  /\ pc' = "idle"
  /\ hist' = <<>>
  /\ UNCHANGED <<screen_details, stars, shooting_stars, frame, now, last_frame,
                 dt, elapsed, writes, calls>>

\* lines 356-368: Escape pressed
EscapePressed ==
  /\ pc = "idle" /\ status = "running"
  /\ status' = "exited"
  /\ UNCHANGED <<screen_details, stars, shooting_stars, frame, now, last_frame,
                 dt, elapsed, pc, log, writes, calls, hist>>

Next ==
  \/ BeginFrame
  \/ UpdateStars
  \/ Spawn
  \/ UpdateShootingStars
  \/ Present
  \/ EscapePressed

Spec == Init /\ [][Next]_vars

(***************************************************************************)
(* Unit runs: one object, a fixed dt, and repeated calls of one method.    *)
(***************************************************************************)
\* the screens of the unit runs
UnitScreens == { [width |-> WIDTH, height |-> HEIGHT], [width |-> 640, height |-> 360] }

\* 0.1 and 0.125
F0_1 == <<13421773, -27>>
F0_125 == <<8388608, -26>>

\* what the variables a unit run does not use hold
UnitIdle ==
  /\ now = 0 /\ last_frame = 0 /\ elapsed = F0 /\ pc = "unit"
  /\ status = "running" /\ writes = {} /\ calls = 0 /\ hist = <<>>

(***************************************************************************)
(* ShootingStar::update called again and again on one shooting star        *)
(***************************************************************************)
\* the steps dt the runs use: 0, 0.1, 0.125, 1.0
ShootingDts == {F0, F0_1, F0_125, F1}

\* the updates of a run
MaxUpdates == 82

\* the shooting stars the runs start from: a spawned one, one 150 px left of
\* the screen moving left, and one at (width + 50, 100) with vx -300, vy 20
ShootingStarts(sd) ==
  { Spawned(sd, [start_y |-> F50, vx |-> F32Neg(F200), vy |-> F10]),
    ShootingStarNew(F32Neg(<<9830400, -16>>), F50, F32Neg(F400), F10),
    ShootingStarNew(F32Add(I2F(sd.width), F50), F100, F32Neg(<<9830400, -15>>),
                    <<10485760, -19>>) }

InitShooting ==
  /\ screen_details \in UnitScreens
  /\ stars = <<>>
  /\ shooting_stars \in {<<s>> : s \in ShootingStarts(screen_details)}
  /\ frame = NewFrame(0, 0)
  /\ dt \in ShootingDts
  /\ log = <<>>
  /\ UnitIdle

\* one more update; hist gets the position the star had when it was called
ShootingStarUpdateStep ==
  /\ calls < MaxUpdates
  /\ shooting_stars' = <<ShootingStarUpdate(shooting_stars[1], dt)>>
  /\ hist' = Append(hist, <<shooting_stars[1].x, shooting_stars[1].y>>)
  /\ calls' = calls + 1
  /\ UNCHANGED <<screen_details, stars, frame, now, last_frame, dt, elapsed, pc,
                 status, log, writes>>

SpecShooting == InitShooting /\ [][ShootingStarUpdateStep]_vars

(***************************************************************************)
(* Star::update called again and again on one star                         *)
(***************************************************************************)
\* the steps dt the runs use: 0, 0.1, 1.0, 4.0
StarDts == {F0, F0_1, F1, F4}

\* the updates of a run
MaxStarUpdates == 230

\* the stars the runs start from: those of Star::new, and one at x = 1.0
StarStarts(sd) ==
  StarNewDraws(sd) \cup
  { [x |-> F1, y |-> F1, speed |-> STAR_MIN_SPEED, twinkle_phase |-> F0,
     twinkle_speed |-> HALF, can_twinkle |-> FALSE, depth |-> HALF,
     color |-> PALETTE[2], size |-> STAR_MAX_SIZE] }

InitStar ==
  /\ screen_details \in UnitScreens
  /\ stars \in {<<s>> : s \in StarStarts(screen_details)}
  /\ shooting_stars = <<>>
  /\ frame = NewFrame(0, 0)
  /\ dt \in StarDts
  /\ log = <<>>
  /\ UnitIdle

\* one more update; hist gets the star as it was when update was called
StarUpdateStep ==
  /\ calls < MaxStarUpdates
  /\ \E rs \in RecycleChoices(stars, dt, screen_details) :
       stars' = <<StarUpdate(stars[1], dt, screen_details, rs[1])>>
  /\ hist' = Append(hist, stars[1])
  /\ calls' = calls + 1
  /\ UNCHANGED <<screen_details, shooting_stars, frame, now, last_frame, dt,
                 elapsed, pc, status, log, writes>>

SpecStar == InitStar /\ [][StarUpdateStep]_vars

(***************************************************************************)
(* ShootingStar::draw_point called once on a buffer                        *)
(***************************************************************************)
\* the arguments of the call: positions in a corner, inside and at the far
\* edge, two colours, alpha 0, 0.5 and 1, three sizes
DrawPointCalls ==
  { [x |-> xy[1], y |-> xy[2], rgb |-> rgb, alpha |-> alpha, size |-> size] :
      xy \in { <<F0, F0>>, <<F100, F50>>, <<I2F(WIDTH - 1), I2F(HEIGHT - 1)>> },
      rgb \in { <<255, 255, 220>>, <<0, 0, 0>> },
      alpha \in {F0, HALF, F1},
      size \in {1, 3, 6} }

\* the buffers of the call: freshly cleared (frame.fill(0)), and every byte 255
DrawPointFrames == { Fill(NewFrame(WIDTH * HEIGHT * 4, 0), 0),
                     NewFrame(WIDTH * HEIGHT * 4, 255) }

InitDraw ==
  /\ screen_details = [width |-> WIDTH, height |-> HEIGHT]
  /\ stars = <<>>
  /\ shooting_stars = <<>>
  /\ frame \in DrawPointFrames
  /\ dt = F0
  /\ log \in {<<p>> : p \in DrawPointCalls}
  /\ UnitIdle

\* the state after the call returned the canvas c
DrawPointDone(c) ==
  /\ frame' = c.frame
  /\ writes' = c.w
  /\ status' = IF c.ok THEN status ELSE "panicked"

\* the call; hist gets the buffer as it was
DrawPointStep ==
  /\ calls = 0
  /\ DrawPointDone(DrawPoint(Canvas(frame), log[1]))
  /\ hist' = <<frame>>
  /\ calls' = 1
  /\ UNCHANGED <<screen_details, stars, shooting_stars, now, last_frame, dt,
                 elapsed, pc, log>>

SpecDraw == InitDraw /\ [][DrawPointStep]_vars

\* the buffers f and g hold the same bytes
SameBytes(f, g) ==
  /\ f.len = g.len
  /\ f.base = g.base
  /\ \A b \in DOMAIN f.px \cup DOMAIN g.px :
       \A k \in 0..3 : Get(f, b + k) = Get(g, b + k)

(***************************************************************************)
(* The shooting stars over many frames: the spawn and the pass of a frame  *)
(* (main.rs lines 329-347), frame after frame, on a screen no narrower or  *)
(* lower than WIDTH x HEIGHT and with a positive time between frames.      *)
(* hist holds, for each shooting star of the collection, in its order, a   *)
(* record of the star's past: the number it was spawned as, where it was   *)
(* spawned, the f32 sum of the dt of the frames it was in, and how many.   *)
(* The clock does not matter to a shooting star: now holds the parity of   *)
(* the number of frames so far.                                            *)
(***************************************************************************)
ShowerScreens == { [width |-> WIDTH, height |-> HEIGHT], [width |-> 2560, height |-> 1440] }

\* the times between two frames, in ms
ShowerMs == {1000, 2000}

\* the shooting stars a run spawns
MaxSpawns == 3

InitShower ==
  /\ screen_details \in ShowerScreens
  /\ stars = <<>>
  /\ shooting_stars = <<>>
  /\ frame = NewFrame(screen_details.width * screen_details.height * 4, 0)
  /\ dt = F0
  /\ log = <<>>
  /\ UnitIdle

\* variant: the spawned star is put in front of the collection
AfterSpawnInFront(ss, sd, b, r) == IF b THEN <<Spawned(sd, r)>> \o ss ELSE ss

\* lines 329-337: the collection after the spawn decision b, r holding the
\* values the rng returns
AfterSpawn(ss, sd, b, r) == IF b THEN Append(ss, Spawned(sd, r)) ELSE ss

\* the record of a star spawned as number id
PastNew(sd, r, id) ==
  [id |-> id, born |-> <<F32Add(I2F(sd.width), F50), r.start_y>>, lived |-> F0,
   frames |-> 0]

\* the record of a star after one more frame with step d
PastAged(g, d) == [g EXCEPT !.lived = F32Add(g.lived, d), !.frames = g.frames + 1]

\* the indices of coll the pass with step d keeps
Kept(coll, d, sd) ==
  {i \in 1..Len(coll) : ShootingStarIsAlive(ShootingStarUpdate(coll[i], d), sd)}

\* the records gs of the stars the pass keeps, in order, one frame older
Survivors(gs, d, keep) ==
  [j \in 1..Cardinality(keep) |->
     PastAged(gs[CHOOSE i \in keep : Cardinality({m \in keep : m < i}) = j - 1], d)]

\* the state after the pass returned r, gs the records of the stars kept
ShowerDone(r, gs) ==
  /\ shooting_stars' = r.objs
  /\ frame' = r.canvas.frame
  /\ writes' = r.canvas.w
  /\ log' = r.log
  /\ status' = IF r.canvas.ok THEN status ELSE "panicked"
  /\ hist' = gs

\* lines 340-347 on the collection coll with the records gs
ShowerPass(coll, gs, d) ==
  ShowerDone(UpdateAndDrawObjects(coll, d, Canvas(Fill(frame, 0)), screen_details),
             Survivors(gs, d, Kept(coll, d, screen_details)))

\* a frame with step d that leaves n stars spawned so far
ShowerStep(coll, gs, d, n) ==
  /\ dt' = d
  /\ calls' = n
  /\ ShowerPass(coll, gs, d)

\* one more frame began
FrameBegins == now' = (now + 1) % 2

\* a frame: the clear, the spawn decision and the pass; calls counts the spawns
ShowerFrame ==
  /\ status = "running"
  /\ FrameBegins
  /\ \E ms \in ShowerMs : \E b \in GenBool(AsSecsF32(ms)) :
       IF b
       THEN /\ calls < MaxSpawns
            /\ \E r \in SpawnDraws(screen_details) :
                 ShowerStep(AfterSpawn(shooting_stars, screen_details, b, r),
                            Append(hist, PastNew(screen_details, r, calls + 1)),
                            AsSecsF32(ms), calls + 1)
       ELSE ShowerStep(AfterSpawn(shooting_stars, screen_details, b, <<>>), hist,
                       AsSecsF32(ms), calls)
  /\ UNCHANGED <<screen_details, stars, last_frame, elapsed, pc>>

\* the event loop polls and requests a redraw whenever it is idle (lines 309
\* and 353-355): frames keep coming
SpecShower == InitShower /\ [][ShowerFrame]_vars /\ WF_now(FrameBegins)

(***************************************************************************)
(* Properties                                                              *)
(***************************************************************************)
\* the position (x, y) is strictly inside the screen expanded by 200 px
InsideMargin(s, sd) ==
  /\ F32Gt(s.x, F32Neg(F200))
  /\ F32Lt(s.x, F32Add(I2F(sd.width), F200))
  /\ F32Gt(s.y, F32Neg(F200))
  /\ F32Lt(s.y, F32Add(I2F(sd.height), F200))

\* the x Star::update computes for the star it was last called on
LastNewX == StarMoved(hist[Len(hist)], dt, StarDecay(hist[Len(hist)], dt)).x

\* C1: under repeated ShootingStar::update the trail never holds more than 80
\* positions; after k updates it holds the last min(k, 80) positions pushed,
\* oldest first; after 81 updates it holds 80 and its first is the 2nd pushed.
C1_TrailFifo ==
  \A i \in 1..Len(shooting_stars) :
    LET t == shooting_stars[i].trail
    IN  /\ Len(t) <= 80
        /\ Len(t) = IF calls < 80 THEN calls ELSE 80
        /\ t = SubSeq(hist, Len(hist) - Len(t) + 1, Len(hist))
        /\ calls = 81 => (Len(t) = 80 /\ t[1] = hist[2])

\* 81 updates with a moving star: 80 positions kept, the oldest the 2nd pushed
C1_Witness ==
  /\ calls = 81
  /\ Len(shooting_stars[1].trail) = 80
  /\ shooting_stars[1].trail[1] = hist[2]
  /\ hist[1] # hist[2]

\* C2 (as amended): ShootingStar::is_alive is false exactly when life >=
\* max_life or the position is on or beyond the 200 px margin around the
\* screen; with max_life 3.0 and every dt the f32 0.1, a star that stays
\* inside the margin is alive after each of the first 30 updates and not
\* alive after the 31st and later ones.
C2_IsAliveExactly ==
  \A i \in 1..Len(shooting_stars) :
    LET s == shooting_stars[i]
    IN  /\ ShootingStarIsAlive(s, screen_details)
             <=> (F32Lt(s.life, s.max_life) /\ InsideMargin(s, screen_details))
        /\ (dt = F0_1 /\ s.max_life = F3 /\ InsideMargin(s, screen_details))
             => (ShootingStarIsAlive(s, screen_details) <=> calls <= 30)

\* the 30th update with dt 0.1 of a star inside the margin: still alive
C2_Witness ==
  /\ dt = F0_1 /\ calls = 30
  /\ InsideMargin(shooting_stars[1], screen_details)
  /\ F32Lt(shooting_stars[1].life, F3)
  /\ ShootingStarIsAlive(shooting_stars[1], screen_details)

\* C2 as stated: the same, but alive after each of the first 29 updates and
\* not alive after the 30th.
C2_AsStated ==
  \A i \in 1..Len(shooting_stars) :
    LET s == shooting_stars[i]
    IN  /\ ShootingStarIsAlive(s, screen_details)
             <=> (F32Lt(s.life, s.max_life) /\ InsideMargin(s, screen_details))
        /\ (dt = F0_1 /\ s.max_life = F3 /\ InsideMargin(s, screen_details))
             => (ShootingStarIsAlive(s, screen_details) <=> calls <= 29)

\* C3: Star::update recycles exactly when the x it computes is below 0: then
\* x is the screen width exactly, whatever the overshoot; otherwise (x = 0
\* included) the star keeps the computed x and the decayed speed and nothing
\* else of it changes.
C3_RecycleExactly ==
  calls >= 1 =>
    LET before == hist[Len(hist)]
        after  == stars[1]
    IN  IF F32Lt(LastNewX, F0)
        THEN after.x = I2F(screen_details.width)
        ELSE /\ after.x = LastNewX
             /\ after.speed = StarDecay(before, dt)
             /\ after.y = before.y /\ after.depth = before.depth
             /\ after.size = before.size
             /\ after.twinkle_phase = before.twinkle_phase
             /\ after.twinkle_speed = before.twinkle_speed

\* an update that moved the star more than a pixel below 0: x is the width
C3_Witness ==
  /\ calls >= 1
  /\ F32Lt(LastNewX, F32Neg(F1))
  /\ stars[1].x = I2F(screen_details.width)

\* C4: the star collection holds STAR_COUNT stars in every state, recycles or
\* not, and Star::is_alive is true of each.
C4_StarCount ==
  /\ Len(stars) = STAR_COUNT
  /\ \A i \in 1..Len(stars) : StarIsAlive(stars[i], screen_details)

\* the last frame's star loop done, a star recycled in it
C4_Witness ==
  /\ calls = MaxFrames /\ pc = "spawn"
  /\ \E k \in 1..Len(log) : log[k][1] = "star_recycle"
  /\ Len(stars) = STAR_COUNT

\* C5 as stated: every pixel write of a frame is at a column and row of the
\* screen, at the byte index (row * width + col) * 4 of that screen's width,
\* inside the buffer, and no draw panics.
C5_WritesInsideScreen ==
  /\ ~(status = "panicked" /\ pc = "shooting")
  /\ \A w \in writes :
       /\ w[1] >= 0 /\ w[1] < screen_details.width
       /\ w[2] >= 0 /\ w[2] < screen_details.height
       /\ w[3] = (w[2] * screen_details.width + w[1]) * 4
       /\ w[3] + 3 < frame.len

\* C6 as stated: no frame panics, whatever dt and the screen.
C6_FrameTotal == status # "panicked"

\* C7 as stated: draw_point with alpha 0 leaves every byte of the buffer as it
\* was.
C7_AlphaZeroUnchanged ==
  (calls = 1 /\ log[1].alpha = F0) => SameBytes(hist[1], frame)

\* C8: a pass that returned made, for each object in collection order, the
\* calls update, draw, is_alive and no others, and left exactly the updated
\* objects whose is_alive was true, in their order.
C8_PassPolicy ==
  pc = "present" =>
    LET n    == Len(hist)
        base == Len(log) - 3 * n
        upd  == [i \in 1..n |-> ShootingStarUpdate(hist[i], dt)]
    IN  /\ base >= 1
        /\ log[base][1] = "spawn_decision"
        /\ \A i \in 1..n :
             /\ log[base + 3 * i - 2] = <<"update", i>>
             /\ log[base + 3 * i - 1] = <<"draw", i>>
             /\ log[base + 3 * i]
                  = <<"is_alive", i, ShootingStarIsAlive(upd[i], screen_details)>>
        /\ shooting_stars
             = SelectSeq(upd, LAMBDA s : ShootingStarIsAlive(s, screen_details))

\* a pass over two shooting stars that removed the first and kept the second
C8_Witness ==
  /\ pc = "present"
  /\ Len(hist) = 2
  /\ shooting_stars = <<ShootingStarUpdate(hist[2], dt)>>

\* C9: at the end of a frame every shooting star of the collection has
\* 0 <= life <= max_life.
C9_LifeInRange ==
  pc \in {"present", "idle"} =>
    \A i \in 1..Len(shooting_stars) :
      /\ F32Ge(shooting_stars[i].life, F0)
      /\ F32Le(shooting_stars[i].life, shooting_stars[i].max_life)

\* the end of the second frame, a shooting star kept in both
C9_Witness ==
  /\ pc = "idle" /\ calls = 2
  /\ Len(shooting_stars) >= 1
  /\ F32Gt(shooting_stars[1].life, F1)

\* C10: a star's size is within 1..4 after Star::new and after every update,
\* and right after a recycle 0 <= x <= width.
C10_SizeAndRecycleX ==
  \A i \in 1..Len(stars) :
    /\ stars[i].size \in 1..4
    /\ (calls >= 1 /\ StarRecycles(hist[Len(hist)], dt))
         => (F32Ge(stars[i].x, F0) /\ F32Le(stars[i].x, I2F(screen_details.width)))

\* a recycle that gave a star of size 1 the size 4
C10_Witness ==
  /\ calls >= 1
  /\ StarRecycles(hist[Len(hist)], dt)
  /\ hist[Len(hist)].size = 1
  /\ stars[1].size = 4
  /\ stars[1].x = I2F(screen_details.width)

\* C11 as stated: an update with a positive dt that does not recycle the star
\* leaves x strictly smaller than it was.
C11_XStrictlyDecreases ==
  (calls >= 1 /\ F32Gt(dt, F0) /\ ~StarRecycles(hist[Len(hist)], dt))
    => F32Lt(stars[1].x, hist[Len(hist)].x)

\* the four bytes of the pixel at byte index b
PixelAt(f, b) == <<Get(f, b), Get(f, b + 1), Get(f, b + 2), Get(f, b + 3)>>

\* C12 as stated: after the clear and before any object is drawn every pixel
\* of the buffer is opaque black, (0, 0, 0, 255).
C12_ClearedOpaqueBlack ==
  pc = "stars" =>
    \A b \in DOMAIN frame.px \cup {0, frame.len - 4} :
      PixelAt(frame, b) = <<0, 0, 0, 255>>

\* the step of the frame a logged call belongs to: the clear, the star loop,
\* the spawn decision, the shooting-star pass, the hand-off
StepRank(e) ==
  CASE e[1] = "clear" -> 0
    [] e[1] \in {"star_update", "star_recycle", "star_twinkle", "star_draw"} -> 1
    [] e[1] = "spawn_decision" -> 2
    [] e[1] \in {"update", "draw", "is_alive"} -> 3
    [] e[1] = "present" -> 4

\* the logged calls of the star loop (the recycle inside update left out) and
\* of the shooting-star pass
StarLoopCalls == SelectSeq(log, LAMBDA e : StepRank(e) = 1 /\ e[1] # "star_recycle")
PassCalls == SelectSeq(log, LAMBDA e : StepRank(e) = 3)

\* C13: the calls of a frame are made in the order clear, then for each star
\* in turn main update, twinkle update, draw, then the spawn decision, then
\* for each shooting star in turn update, draw, is_alive, then the hand-off:
\* the clear is first and single, steps never go back, every star has had its
\* three calls before the spawn decision, and the hand-off is last.
C13_FrameOrder ==
  /\ (pc # "idle" \/ calls >= 1) => (Len(log) >= 1 /\ log[1] = <<"clear">>)
  /\ \A k \in 2..Len(log) :
       /\ StepRank(log[k - 1]) <= StepRank(log[k])
       /\ StepRank(log[k]) # 0
       /\ StepRank(log[k]) \in {2, 4} => StepRank(log[k - 1]) < StepRank(log[k])
  /\ \A k \in 1..Len(StarLoopCalls) :
       StarLoopCalls[k]
         = << <<"star_update", "star_twinkle", "star_draw">>[((k - 1) % 3) + 1],
              ((k - 1) \div 3) + 1 >>
  /\ \A k \in 1..Len(PassCalls) :
       /\ PassCalls[k][1] = <<"update", "draw", "is_alive">>[((k - 1) % 3) + 1]
       /\ PassCalls[k][2] = ((k - 1) \div 3) + 1
  /\ pc \in {"spawn", "shooting", "present"} => Len(StarLoopCalls) = 3 * STAR_COUNT
  /\ (\E k \in 1..Len(log) : StepRank(log[k]) >= 2) => Len(StarLoopCalls) = 3 * STAR_COUNT
  /\ pc \in {"shooting", "present"} => (\E k \in 1..Len(log) : StepRank(log[k]) = 2)
  /\ (\E k \in 1..Len(log) : StepRank(log[k]) = 4)
       => (pc = "idle" /\ Len(PassCalls) % 3 = 0
           /\ \E k \in 1..Len(log) : StepRank(log[k]) = 2)

\* a frame handed off after a star loop and a pass that drew a shooting star
C13_Witness ==
  /\ pc = "idle" /\ calls >= 1 /\ status = "running"
  /\ log[Len(log)] = <<"present">>
  /\ \E k \in 1..Len(log) : log[k] = <<"draw", 1>>
  /\ \E k \in 1..Len(log) : log[k] = <<"star_draw", STAR_COUNT>>

\* C14: one ShootingStar::update with step dt makes the pre-update position
\* the newest trail entry and sets x' = x + vx*dt, vy' = vy + 30*dt,
\* y' = y + vy'*dt, life' = life + dt, leaving vx and max_life as they were;
\* from (1970, 100) with vx = -300, vy = 20 and dt = 1 it gives x = 1670,
\* vy = 50, y = 150, life one more, and (1970, 100) newest in the trail.
C14_UpdateStep ==
  [][ LET s == shooting_stars[1]
          t == shooting_stars'[1]
      IN  /\ Len(t.trail) >= 1
          /\ t.trail[Len(t.trail)] = <<s.x, s.y>>
          /\ t.x = F32Add(s.x, F32Mul(s.vx, dt))
          /\ t.vy = F32Add(s.vy, F32Mul(I2F(30), dt))
          /\ t.y = F32Add(s.y, F32Mul(t.vy, dt))
          /\ t.life = F32Add(s.life, dt)
          /\ t.vx = s.vx
          /\ t.max_life = s.max_life
          /\ (/\ s.x = I2F(1970) /\ s.y = I2F(100)
              /\ s.vx = F32Neg(I2F(300)) /\ s.vy = I2F(20) /\ dt = F1)
               => (/\ t.x = I2F(1670) /\ t.vy = I2F(50) /\ t.y = I2F(150)
                   /\ t.life = F32Add(s.life, F1)
                   /\ t.trail[Len(t.trail)] = <<I2F(1970), I2F(100)>>) ]_vars

\* the update of the star at (1970, 100) with vx -300, vy 20 and dt 1 is done
C14_Witness ==
  /\ calls = 1 /\ dt = F1
  /\ hist = << <<I2F(1970), I2F(100)>> >>
  /\ shooting_stars[1].vx = F32Neg(I2F(300))
  /\ shooting_stars[1].x = I2F(1670)
  /\ shooting_stars[1].vy = I2F(50)
  /\ shooting_stars[1].y = I2F(150)
  /\ shooting_stars[1].life = F1
  /\ shooting_stars[1].trail = hist

\* the twinkle_phase a star has after the star loop of a frame, given the
\* phase and the twinkle_speed its main update left it with
PhaseAfterLoop(can_twinkle, phase, twinkle_speed) ==
  IF can_twinkle THEN F32Add(F32Mul(elapsed, twinkle_speed), phase) ELSE phase

\* C15: the star loop of a frame leaves each star with can_twinkle the phase
\* its main update left plus elapsed * twinkle_speed (added to the phase, not
\* replacing it; on a recycle, to the recycled phase with the recycled
\* twinkle_speed) and each star without can_twinkle the phase its main update
\* left, which differs from the one before only on a recycle; no other step of
\* a frame changes a phase.
C15_TwinkleAdditive ==
  [][ IF pc = "stars" /\ pc' = "spawn"
      THEN \A i \in 1..Len(stars) :
             IF StarRecycles(stars[i], dt)
             THEN \E r \in RecycleDraws(screen_details) :
                    /\ stars'[i].twinkle_speed = r.twinkle_speed
                    /\ stars'[i].twinkle_phase
                         = PhaseAfterLoop(stars[i].can_twinkle, r.twinkle_phase,
                                          r.twinkle_speed)
             ELSE /\ stars'[i].twinkle_speed = stars[i].twinkle_speed
                  /\ stars'[i].twinkle_phase
                       = PhaseAfterLoop(stars[i].can_twinkle, stars[i].twinkle_phase,
                                        stars[i].twinkle_speed)
      ELSE stars' = stars ]_vars

\* the star loop of the second frame is done, two seconds after the start: a
\* twinkling star that was never recycled has had 1 * twinkle_speed and then
\* 2 * twinkle_speed added to the phase it was created with
C15_Witness ==
  /\ pc = "spawn" /\ calls = 2 /\ elapsed = F2
  /\ \E i \in 1..Len(stars) :
       /\ stars[i].can_twinkle
       /\ stars[i].twinkle_speed = Mid(HALF, F3_14)
       /\ stars[i].twinkle_phase
            = F32Add(F32Mul(F2, Mid(HALF, F3_14)),
                     F32Add(F32Mul(F1, Mid(HALF, F3_14)), Mid(F0, TAU)))

\* C16: no step changes a star's color or can_twinkle; a star loop that does
\* not recycle a star leaves its y, depth, twinkle_speed and size as they
\* were (its main update changes speed and x only, update_twinkle
\* twinkle_phase only and only with can_twinkle, draw nothing); a recycle
\* changes none but x, y, depth, twinkle_phase, twinkle_speed, speed, size.
C16_StarFieldsKept ==
  [][ /\ Len(stars') = Len(stars)
      /\ \A i \in 1..Len(stars) :
           /\ DOMAIN stars'[i] = DOMAIN stars[i]
           /\ stars'[i].color = stars[i].color
           /\ stars'[i].can_twinkle = stars[i].can_twinkle
           /\ (pc = "stars" /\ ~StarRecycles(stars[i], dt))
                => (/\ stars'[i].y = stars[i].y
                    /\ stars'[i].depth = stars[i].depth
                    /\ stars'[i].twinkle_speed = stars[i].twinkle_speed
                    /\ stars'[i].size = stars[i].size
                    /\ ~stars[i].can_twinkle
                         => stars'[i].twinkle_phase = stars[i].twinkle_phase)
           /\ pc # "stars" => stars'[i] = stars[i] ]_vars

\* a star loop recycled a star created blue, small and not twinkling: it is
\* large now, and blue and not twinkling as before
C16_Witness ==
  /\ pc = "spawn"
  /\ \E i \in 1..Len(stars) :
       /\ \E k \in 1..Len(log) : log[k] = <<"star_recycle", i>>
       /\ stars[i].size = STAR_MAX_SIZE
       /\ stars[i].x = I2F(screen_details.width)
       /\ stars[i].color = PALETTE[1]
       /\ ~stars[i].can_twinkle

\* the numbers of the shooting stars of the collection
LiveIds == {hist[i].id : i \in 1..Len(hist)}

C18_SpawnedBeforePass ==
  /\ [](/\ Len(shooting_stars) = Len(hist)
        /\ Len(log) >= 3 * Len(shooting_stars)
        /\ \A i \in 1..Len(hist) :
             /\ hist[i].frames >= 1
             /\ Len(shooting_stars[i].trail) = hist[i].frames
             /\ shooting_stars[i].trail[1] = hist[i].born
             /\ shooting_stars[i].life = hist[i].lived
             /\ i > 1 => hist[i - 1].id < hist[i].id)
  /\ [][Len(shooting_stars') <= Len(shooting_stars) + 1]_vars

\* the end of a frame that spawned a star behind an older one: the new star
\* is last, has one trail entry, its spawn position, and life dt
C18_Witness ==
  /\ Len(shooting_stars) = 2
  /\ Len(hist) = 2
  /\ hist[2].frames = 1
  /\ hist[1].frames >= 2
  /\ shooting_stars[2].trail = <<hist[2].born>>
  /\ shooting_stars[2].life = dt
  /\ \E k \in 1..Len(log) : log[k] = <<"draw", 2>>

=============================================================================
